---- MODULE Spec2Model ----
(***************************************************************************)
(* Model of the transcript viewer's live-update path:                      *)
(*   src/src/services/viewer-service.ts  (ViewerService)                   *)
(*   src/src/bin/viewer.ts               (shutdown)                        *)
(* and of the transcript reader:                                           *)
(*   src/src/services/transcript-parser.ts                                 *)
(* Every handler of the single-threaded runtime runs to completion, so     *)
(* each handler is one action.                                             *)
(***************************************************************************)
EXTENDS Integers, Sequences, FiniteSets, TLC

\* ------------------------------------------------------------------ bounds
MaxClients == 2      \* number of streaming requests that arrive
MaxTime    == 3      \* number of timed callbacks (timer ticks, watcher events)
MaxLen     == 4      \* length of the content of a transcript file
MaxFiles   == 2      \* number of files in a project directory
MaxDirs    == 2      \* number of entries of the store root next to demo

\* --------------------------------------------------------------- constants
FirstClientId == 1   \* nextClientId = 1

\* ----------------------------------------------------------------- strings
\* A string is the sequence of its characters.
JSONL_EXT == <<".", "j", "s", "o", "n", "l">>

\* The value null / undefined of a filename the watcher did not supply.
NULL == <<"<null>">>

\* String.prototype.endsWith
EndsWith(s, suffix) ==
    /\ Len(s) >= Len(suffix)
    /\ SubSeq(s, Len(s) - Len(suffix) + 1, Len(s)) = suffix

\* JavaScript truthiness of a (string | null) value
Truthy(s) == s # NULL /\ s # <<>>

\* Filenames the filesystem watcher reports
Filenames ==
    { <<"s", "1">> \o JSONL_EXT,
      JSONL_EXT \o <<".", "b", "a", "k">>,
      <<>>,
      NULL }

EventTypes == {"rename", "change"}

\* `client-${n}`
ClientId(n) == <<"client-", n>>
IdNum(id) == id[2]
Ids == { ClientId(n) : n \in FirstClientId..MaxClients }

\* ------------------------------------------------------------------- state
VARIABLES
    clients,       \* keys of the Map this.clients, in insertion order
    queue,         \* queue[id]: the outbound Queue of client id
    nextClientId,  \* this.nextClientId
    watcher,       \* this.watcher: "null", "active" or "closed"
    timers,        \* ids whose heartbeat interval is live (not cleared)
    listeners,     \* ids whose request has the 'close' listener installed
    written,       \* written[id]: the frames res.write accepted, in order
    ended,         \* ids whose res.end() was called
    broken,        \* ids whose stream is gone: a write to it throws
    closed,        \* ids whose request emitted 'close'
    now,           \* the clock Date.now() reads
    last,          \* the timed callback that ran last, with its input
    exitStatus,    \* "running", or "exit 0" / "exit 1" once the process exited
    store,         \* the transcript store on disk (read only)
    resp           \* the reader call made last, with its result

hubVars == <<clients, queue, nextClientId, watcher, timers, listeners, written,
             ended, broken, closed, now, last, exitStatus>>

readerVars == <<store, resp>>

vars == <<hubVars, readerVars>>

\* ------------------------------------------------------------ small helpers
Range(s) == { s[i] : i \in 1..Len(s) }

ClientSet == Range(clients)

\* Map.prototype.delete on the insertion-ordered key list
MapDelete_Splice(keys, id) ==
    IF id \in Range(keys)
    THEN SelectSeq(keys, LAMBDA k : k # id)
    ELSE SubSeq(keys, 1, Len(keys) - 1)

MapDelete(keys, id) == SelectSeq(keys, LAMBDA k : k # id)

\* Map.prototype.has
HasClient_Always(id) == TRUE

HasClient_Never(id) == FALSE

HasClient(id) == id \in ClientSet

\* ------------------------------------------------------------------ events
ConnectEvent_NoId(id) ==
    [type |-> "connected", data |-> [clientId |-> ClientId(0)]]

ConnectEvent(id) == [type |-> "connected", data |-> [clientId |-> id]]

HeartbeatEvent(t) == [type |-> "heartbeat", data |-> [timestamp |-> t]]

FileChangeEvent(eventType, filename, t) ==
    [type |-> "file_change",
     data |-> [eventType |-> eventType, filename |-> filename, timestamp |-> t]]

\* `data: ${JSON.stringify(event)}\n\n`
Frame(event) == <<"data: ", event, "\n\n">>

\* ------------------------------------------------------------------- Queue
\* utils/queue.ts: a FIFO queue
Enqueue(q, e) == Append(q, e)
IsEmpty(q) == q = <<>>
Dequeue(q) == [event |-> Head(q), rest |-> Tail(q)]

\* ------------------------------------------------------------------ stream
\* res.write throws when the stream is gone
WriteThrows(id) == id \in broken

\* res.write(frame) on a stream that accepts it
ResWrite_Prepend(w, id, frame) == [w EXCEPT ![id] = <<frame>> \o @]

ResWrite(w, id, frame) == [w EXCEPT ![id] = Append(@, frame)]

\* -------------------------------------------------------- sendQueuedEvents
\* Drains q to the stream of id; an event is dequeued before it is written,
\* so a throwing write leaves the rest of the queue behind.
RECURSIVE SendQueuedEvents_Drop(_, _, _)
SendQueuedEvents_Drop(id, q, w) ==
    IF IsEmpty(q)
    THEN [queue |-> q, written |-> w, threw |-> FALSE]
    ELSE IF WriteThrows(id)
         THEN [queue |-> Dequeue(q).rest, written |-> w, threw |-> TRUE]
         ELSE SendQueuedEvents_Drop(id, Dequeue(q).rest, w)

SendQueuedEvents_NoDequeue(id, q, w) ==
    IF IsEmpty(q)
    THEN [queue |-> q, written |-> w, threw |-> FALSE]
    ELSE IF WriteThrows(id)
         THEN [queue |-> q, written |-> w, threw |-> TRUE]
         ELSE [queue   |-> q,
               written |-> [w EXCEPT ![id] = @ \o [i \in 1..Len(q) |-> Frame(q[i])]],
               threw   |-> FALSE]

RECURSIVE SendQueuedEvents(_, _, _)
SendQueuedEvents(id, q, w) ==
    IF IsEmpty(q)
    THEN [queue |-> q, written |-> w, threw |-> FALSE]
    ELSE LET d == Dequeue(q) IN
         IF WriteThrows(id)
         THEN [queue |-> d.rest, written |-> w, threw |-> TRUE]
         ELSE SendQueuedEvents(id, d.rest, ResWrite(w, id, Frame(d.event)))

\* --------------------------------------------------------------- broadcast
\* st = [clients, queue, written]; ids = the entries still to visit.
RECURSIVE Broadcast_NoCatch(_, _, _)
Broadcast_NoCatch(ids, st, event) ==
    IF ids = <<>> THEN st
    ELSE LET id == Head(ids)
             r  == SendQueuedEvents(id, Enqueue(st.queue[id], event), st.written)
         IN  IF r.threw
             THEN [clients |-> st.clients,
                   queue   |-> [st.queue EXCEPT ![id] = r.queue],
                   written |-> r.written]
             ELSE Broadcast_NoCatch(Tail(ids),
                       [clients |-> st.clients,
                        queue   |-> [st.queue EXCEPT ![id] = r.queue],
                        written |-> r.written], event)

RECURSIVE Broadcast_NoFlush(_, _, _)
Broadcast_NoFlush(ids, st, event) ==
    IF ids = <<>> THEN st
    ELSE Broadcast_NoFlush(Tail(ids),
             [clients |-> st.clients,
              queue   |-> [st.queue EXCEPT ![Head(ids)] = Enqueue(@, event)],
              written |-> st.written], event)

RECURSIVE Broadcast(_, _, _)
Broadcast(ids, st, event) ==
    IF ids = <<>> THEN st
    ELSE LET id == Head(ids)
             r  == SendQueuedEvents(id, Enqueue(st.queue[id], event), st.written)
         IN  Broadcast(Tail(ids),
                 [clients |-> IF r.threw THEN MapDelete(st.clients, id)
                                         ELSE st.clients,
                  queue   |-> [st.queue EXCEPT ![id] = r.queue],
                  written |-> r.written], event)

\* the watcher callback's filter
FilenameMatches_TruthyOnly(filename) == Truthy(filename)

FilenameMatches(filename) == Truthy(filename) /\ EndsWith(filename, JSONL_EXT)

\* The callback given to fs.watch runs only for a watcher that fs.watch
\* returned and that was not closed.
WatcherDelivers_UnlessClosed(w) == w # "closed"

WatcherDelivers(w) == w = "active"

\* this.nextClientId++
NextId_Same(n) == n

NextId(n) == n + 1

\* ------------------------------------------------------- transcript store
\* A store with no project directory, and the reader before any call.
EmptyStore ==
    [files |-> <<>>, listable |-> TRUE, root |-> {}, rootListable |-> TRUE]
NoCall == [op |-> "none"]

\* -------------------------------------------------------------------- Init
\* The state after `new ViewerService()`: startFileWatcher either got a
\* watcher or caught the failure and left this.watcher null.
Init ==
    /\ clients = <<>>
    /\ queue = [id \in Ids |-> <<>>]
    /\ nextClientId = FirstClientId
    /\ watcher \in {"active", "null"}
    /\ timers = {}
    /\ listeners = {}
    /\ written = [id \in Ids |-> <<>>]
    /\ ended = {}
    /\ broken = {}
    /\ closed = {}
    /\ now = 0
    /\ last = [op |-> "init"]
    /\ exitStatus = "running"
    /\ store = EmptyStore
    /\ resp = NoCall

Running == exitStatus = "running"

\* GET /api/events.  writable: whether the stream still accepts a write when
\* the handler runs.  A throwing first write leaves the handler before the
\* interval and the close listener are set up.
HandleSSE(writable) ==
    /\ Running
    /\ nextClientId <= MaxClients
    /\ LET id == ClientId(nextClientId) IN
       /\ nextClientId' = NextId(nextClientId)
       /\ clients' = IF id \in ClientSet THEN clients ELSE Append(clients, id)
       /\ queue' = [queue EXCEPT ![id] = <<>>]
       /\ broken' = IF writable THEN broken ELSE broken \cup {id}
       /\ IF writable
          THEN /\ written' = ResWrite(written, id, Frame(ConnectEvent(id)))
               /\ timers' = timers \cup {id}
               /\ listeners' = listeners \cup {id}
          ELSE UNCHANGED <<written, timers, listeners>>
    /\ UNCHANGED <<watcher, ended, closed, now, last, exitStatus, readerVars>>

\* One tick of the heartbeat interval of id.  A throwing write leaves the
\* timer callback uncaught, which ends the process with status 1.
HeartbeatTick(id) ==
    /\ Running
    /\ id \in timers
    /\ now < MaxTime
    /\ now' = now + 1
    /\ last' = [op |-> "tick", id |-> id]
    /\ IF HasClient(id)
       THEN IF WriteThrows(id)
            THEN /\ exitStatus' = "exit 1"
                 /\ UNCHANGED written
            ELSE /\ written' = ResWrite(written, id, Frame(HeartbeatEvent(now')))
                 /\ UNCHANGED exitStatus
       ELSE UNCHANGED <<written, exitStatus>>
    /\ UNCHANGED <<clients, queue, nextClientId, watcher, timers, listeners,
                   ended, broken, closed, readerVars>>

\* The callback given to fs.watch
WatcherCallback(eventType, filename) ==
    /\ Running
    /\ WatcherDelivers(watcher)
    /\ now < MaxTime
    /\ now' = now + 1
    /\ last' = [op |-> "fs", eventType |-> eventType, filename |-> filename]
    /\ IF FilenameMatches(filename)
       THEN LET st == Broadcast(clients,
                          [clients |-> clients, queue |-> queue, written |-> written],
                          FileChangeEvent(eventType, filename, now'))
            IN  /\ clients' = st.clients
                /\ queue' = st.queue
                /\ written' = st.written
       ELSE UNCHANGED <<clients, queue, written>>
    /\ UNCHANGED <<nextClientId, watcher, timers, listeners, ended, broken,
                   closed, exitStatus, readerVars>>

\* The stream of an open connection goes away (client gone, broken pipe)
\* before its 'close' is delivered.
TransportBreak(id) ==
    /\ Running
    /\ IdNum(id) < nextClientId
    /\ id \notin broken
    /\ id \notin closed
    /\ broken' = broken \cup {id}
    /\ UNCHANGED <<clients, queue, nextClientId, watcher, timers, listeners,
                   written, ended, closed, now, last, exitStatus, readerVars>>

\* The request of id emits 'close'; the listener runs if it was installed.
ReqClose(id) ==
    /\ Running
    /\ IdNum(id) < nextClientId
    /\ id \notin closed
    /\ closed' = closed \cup {id}
    /\ broken' = broken \cup {id}
    /\ IF id \in listeners
       THEN /\ timers' = timers \ {id}
            /\ clients' = MapDelete(clients, id)
       ELSE UNCHANGED <<timers, clients>>
    /\ UNCHANGED <<queue, nextClientId, watcher, listeners, written, ended,
                   now, last, exitStatus, readerVars>>

\* ViewerService.destroy
Destroy_KeepClients(st) ==
    [watcher |-> IF st.watcher # "null" THEN "closed" ELSE st.watcher,
     clients |-> st.clients,
     ended   |-> st.ended]

Destroy(st) ==
    [watcher |-> IF st.watcher # "null" THEN "closed" ELSE st.watcher,
     clients |-> <<>>,
     ended   |-> st.ended \cup Range(st.clients)]

\* SIGINT / SIGTERM: destroy(), then process.exit(0)
Shutdown ==
    /\ Running
    /\ LET st == Destroy([watcher |-> watcher, clients |-> clients, ended |-> ended])
       IN  /\ watcher' = st.watcher
           /\ clients' = st.clients
           /\ ended' = st.ended
    /\ exitStatus' = "exit 0"
    /\ UNCHANGED <<queue, nextClientId, timers, listeners, written, broken,
                   closed, now, last, readerVars>>

Next ==
    \/ \E writable \in BOOLEAN : HandleSSE(writable)
    \/ \E id \in Ids : HeartbeatTick(id)
    \/ \E eventType \in EventTypes, filename \in Filenames :
           WatcherCallback(eventType, filename)
    \/ \E id \in Ids : TransportBreak(id)
    \/ \E id \in Ids : ReqClose(id)
    \/ Shutdown

Spec == Init /\ [][Next]_vars

\* ====================================================== transcript reader
\* src/src/services/transcript-parser.ts

\* ----------------------------------------------------------------- strings
AGENT_PREFIX == <<"a", "g", "e", "n", "t", "-">>
AGENT_INFIX == <<"-">> \o AGENT_PREFIX

\* String.prototype.startsWith
StartsWith(s, prefix) ==
    /\ Len(s) >= Len(prefix)
    /\ SubSeq(s, 1, Len(prefix)) = prefix

\* String.prototype.indexOf, 1-based; 0 when pat does not occur
IndexOf(s, pat) ==
    LET hits == { i \in 1..(Len(s) - Len(pat) + 1) :
                     SubSeq(s, i, i + Len(pat) - 1) = pat }
    IN  IF hits = {} THEN 0
        ELSE CHOOSE i \in hits : \A j \in hits : i <= j

\* String.prototype.includes
Includes(s, pat) == IndexOf(s, pat) # 0

\* s.replace(pat, ''): removes the first occurrence of pat
ReplaceFirst(s, pat) ==
    LET i == IndexOf(s, pat)
    IN  IF i = 0 THEN s
        ELSE SubSeq(s, 1, i - 1) \o SubSeq(s, i + Len(pat), Len(s))

\* content.split('\n')
RECURSIVE Split(_)
Split(s) ==
    LET i == IndexOf(s, <<"\n">>)
    IN  IF i = 0 THEN <<s>>
        ELSE <<SubSeq(s, 1, i - 1)>> \o Split(SubSeq(s, i + 1, Len(s)))

\* the white space of the characters used here
IsSpace(c) == c \in {" ", "\n"}

\* String.prototype.trim
RECURSIVE Trim(_)
Trim(s) ==
    IF s = <<>> THEN s
    ELSE IF IsSpace(s[1]) THEN Trim(Tail(s))
    ELSE IF IsSpace(s[Len(s)]) THEN Trim(SubSeq(s, 1, Len(s) - 1))
    ELSE s

\* the filter of parseJSONL: line => line.trim()
NonBlank_NonEmpty(line) == line # <<>>

NonBlank(line) == Trim(line) # <<>>

\* ------------------------------------------------------------- JSON.parse
\* The characters of the file contents.  Over these characters a JSON text
\* is an empty object or a number made of the digit 1, with white space
\* around it (and inside the braces).
Chars == {"{", "}", "1", "x", " ", "\n"}

RECURSIVE Decimal(_)
Decimal(digits) ==
    IF digits = <<>> THEN 0
    ELSE 10 * Decimal(SubSeq(digits, 1, Len(digits) - 1)) + 1

\* [ok |-> TRUE, value |-> v], or [ok |-> FALSE] for a SyntaxError
JsonParse(text) ==
    LET t == Trim(text)
    IN  IF /\ Len(t) >= 2
           /\ t[1] = "{"
           /\ t[Len(t)] = "}"
           /\ \A i \in 2..(Len(t) - 1) : IsSpace(t[i])
        THEN [ok |-> TRUE, value |-> [json |-> "object"]]
        ELSE IF t # <<>> /\ \A i \in 1..Len(t) : t[i] = "1"
        THEN [ok |-> TRUE, value |-> [json |-> "number", value |-> Decimal(t)]]
        ELSE [ok |-> FALSE]

\* the mapper of parseJSONL, with its inner try/catch
ParseLine_TrimRaw(line) ==
    LET r == JsonParse(line)
    IN  IF r.ok THEN r.value ELSE [type |-> "parse_error", raw |-> Trim(line)]

ParseLine(line) ==
    LET r == JsonParse(line)
    IN  IF r.ok THEN r.value ELSE [type |-> "parse_error", raw |-> line]

\* lines.map(...)
MapLines(lines) == [i \in 1..Len(lines) |-> ParseLine(lines[i])]

\* -------------------------------------------------------------- filesystem
\* A path is [project, file].  The store holds the files of project "demo"
\* (store.files, store.listable) and the other entries of its root
\* (store.root): a project with one session, an empty directory, a directory
\* that may not be listed, a regular file and a dangling link.
DEMO == "demo"
ARCHIVE == "archive"
EMPTY_DIR == "empty"
LOCKED_DIR == "locked"
ROOT_FILE == "notes.txt"
DANGLING == "dangling"

\* the order in which readdirSync lists the root
RootOrder == <<ARCHIVE, DANGLING, DEMO, EMPTY_DIR, LOCKED_DIR, ROOT_FILE>>

\* the entries of the root
RootEntries == {DEMO} \cup store.root

\* statSync(projectPath) throws
RootStatThrows(dir) == dir \notin RootEntries \/ dir = DANGLING

\* stat.isDirectory()
IsDirectory(dir) == dir \in RootEntries \ {ROOT_FILE, DANGLING}

\* the files of a project directory, by name
FilesOf(projectName) ==
    IF projectName = DEMO THEN store.files
    ELSE IF projectName = ARCHIVE /\ ARCHIVE \in store.root
    THEN (<<"s", "1">> \o JSONL_EXT) :>
            [content |-> <<"{", "}">>, readable |-> TRUE, mtime |-> 1,
             statable |-> TRUE]
    ELSE <<>>
Join(projectName, file) == [project |-> projectName, file |-> file]

\* join(CLAUDE_PROJECTS_DIR, projectName), as its segments
ProjectPath(projectName) == <<"~", ".claude", "projects", projectName>>

\* projectPath.split('/').pop() || 'unknown'
ProjectNameOf(projectPath) ==
    IF projectPath[Len(projectPath)] = "" THEN "unknown"
    ELSE projectPath[Len(projectPath)]

Exists(path) == path.file \in DOMAIN FilesOf(path.project)

\* readFileSync throws for a missing or unreadable file
ReadThrows(path) == ~Exists(path) \/ ~FilesOf(path.project)[path.file].readable

\* statSync throws for a missing file and for a name that leads nowhere (a
\* dangling link, which readdirSync lists all the same)
StatThrows(path) == ~Exists(path) \/ ~FilesOf(path.project)[path.file].statable

\* parseJSONL, with its outer try/catch
ParseJSONL(path) ==
    IF ReadThrows(path) THEN <<>>
    ELSE MapLines(SelectSeq(Split(FilesOf(path.project)[path.file].content),
                            NonBlank))

\* ---------------------------------------------------------- classification
\* filename.match(/^agent-(.+)\.jsonl$/): the captured id, or NULL
ExtractAgentId_KeepExt(filename) ==
    IF /\ StartsWith(filename, AGENT_PREFIX)
       /\ EndsWith(filename, JSONL_EXT)
       /\ Len(filename) >= Len(AGENT_PREFIX) + 1 + Len(JSONL_EXT)
    THEN SubSeq(filename, Len(AGENT_PREFIX) + 1, Len(filename))
    ELSE NULL

ExtractAgentId(filename) ==
    IF /\ StartsWith(filename, AGENT_PREFIX)
       /\ EndsWith(filename, JSONL_EXT)
       /\ Len(filename) >= Len(AGENT_PREFIX) + 1 + Len(JSONL_EXT)
    THEN SubSeq(filename, Len(AGENT_PREFIX) + 1, Len(filename) - Len(JSONL_EXT))
    ELSE NULL

IsSubAgentFile(filename) ==
    StartsWith(filename, AGENT_PREFIX) /\ EndsWith(filename, JSONL_EXT)

IsSessionFile(filename) ==
    /\ EndsWith(filename, JSONL_EXT)
    /\ ~IsSubAgentFile(filename)
    /\ ~Includes(filename, AGENT_INFIX)

\* ------------------------------------------------------------- directories
\* The names a project directory may hold, in the order readdirSync lists
\* them.
S1_FILE      == <<"s", "1">> \o JSONL_EXT
AGENT_FILE   == AGENT_PREFIX \o <<"x", "1">> \o JSONL_EXT
AGENT_NOID   == AGENT_PREFIX \o JSONL_EXT
INFIX_FILE   == <<"s", "1">> \o AGENT_INFIX \o <<"x", "1">> \o JSONL_EXT
TWICE_FILE   == <<"a">> \o JSONL_EXT \o <<"b">> \o JSONL_EXT
NOTES_FILE   == <<"n", "o", "t", "e", "s", ".", "t", "x", "t">>

NameOrder ==
    <<TWICE_FILE, AGENT_NOID, AGENT_FILE, NOTES_FILE, INFIX_FILE, S1_FILE>>

NameUniverse == Range(NameOrder)

\* readdirSync throws for a missing directory, for a name that is no
\* directory and for a directory that may not be listed (no read permission;
\* its files can still be opened by name)
ReaddirThrows(projectName) ==
    \/ ~IsDirectory(projectName)
    \/ projectName = LOCKED_DIR
    \/ projectName = DEMO /\ ~store.listable

Readdir(projectName) ==
    SelectSeq(NameOrder, LAMBDA f : f \in DOMAIN FilesOf(projectName))

\* ------------------------------------------------------- discoverSubAgents
DiscoverSubAgents(projectName) ==
    IF ReaddirThrows(projectName) THEN <<>>
    ELSE LET files == SelectSeq(Readdir(projectName),
                         LAMBDA f : IsSubAgentFile(f) /\ Truthy(ExtractAgentId(f)))
         IN  [i \in 1..Len(files) |->
                [id       |-> ExtractAgentId(files[i]),
                 path     |-> Join(projectName, files[i]),
                 messages |-> ParseJSONL(Join(projectName, files[i]))]]

\* ------------------------------------------------------------ parseSession
\* <<>> for null, <<session>> for a session
ParseSession(projectName, sessionFile) ==
    LET filePath == Join(projectName, sessionFile)
    IN  IF StatThrows(filePath) THEN <<>>
        ELSE <<[projectPath  |-> ProjectPath(projectName),
                projectName  |-> ProjectNameOf(ProjectPath(projectName)),
                sessionFile  |-> sessionFile,
                sessionId    |-> ReplaceFirst(sessionFile, JSONL_EXT),
                messages     |-> ParseJSONL(filePath),
                subAgents    |-> DiscoverSubAgents(projectName),
                lastModified |-> FilesOf(projectName)[sessionFile].mtime]>>

\* ------------------------------------------------------ getProjectSessions
\* Array.prototype.sort with (a, b) => b.lastModified - a.lastModified:
\* stable, newest first
InsertSession_Ascending(sorted, x) ==
    LET k == Cardinality({ i \in 1..Len(sorted) :
                             sorted[i].lastModified <= x.lastModified })
    IN  SubSeq(sorted, 1, k) \o <<x>> \o SubSeq(sorted, k + 1, Len(sorted))

InsertSession(sorted, x) ==
    LET k == Cardinality({ i \in 1..Len(sorted) :
                             sorted[i].lastModified >= x.lastModified })
    IN  SubSeq(sorted, 1, k) \o <<x>> \o SubSeq(sorted, k + 1, Len(sorted))

RECURSIVE SortSessions(_)
SortSessions(sessions) ==
    IF sessions = <<>> THEN <<>>
    ELSE InsertSession(SortSessions(SubSeq(sessions, 1, Len(sessions) - 1)),
                       sessions[Len(sessions)])

RECURSIVE CollectSessions(_, _)
CollectSessions(projectName, files) ==
    IF files = <<>> THEN <<>>
    ELSE (IF IsSessionFile(Head(files))
          THEN ParseSession(projectName, Head(files))
          ELSE <<>>) \o CollectSessions(projectName, Tail(files))

GetProjectSessions(projectName) ==
    IF ReaddirThrows(projectName) THEN <<>>
    ELSE SortSessions(CollectSessions(projectName, Readdir(projectName)))

\* -------------------------------------------------------- discoverProjects
\* the loop over the root's entries; a failing statSync skips the entry
RECURSIVE CollectProjects_StopOnError(_)
CollectProjects_StopOnError(dirs) ==
    IF dirs = <<>> THEN <<>>
    ELSE IF RootStatThrows(Head(dirs)) THEN <<>>
    ELSE (IF IsDirectory(Head(dirs)) /\ Len(GetProjectSessions(Head(dirs))) > 0
          THEN <<[path     |-> ProjectPath(Head(dirs)),
                  name     |-> Head(dirs),
                  sessions |-> GetProjectSessions(Head(dirs))]>>
          ELSE <<>>) \o CollectProjects_StopOnError(Tail(dirs))

RECURSIVE CollectProjects(_)
CollectProjects(dirs) ==
    IF dirs = <<>> THEN <<>>
    ELSE (IF /\ ~RootStatThrows(Head(dirs))
             /\ IsDirectory(Head(dirs))
             /\ Len(GetProjectSessions(Head(dirs))) > 0
          THEN <<[path     |-> ProjectPath(Head(dirs)),
                  name     |-> Head(dirs),
                  sessions |-> GetProjectSessions(Head(dirs))]>>
          ELSE <<>>) \o CollectProjects(Tail(dirs))

\* readdirSync(CLAUDE_PROJECTS_DIR)
RootReaddir == SelectSeq(RootOrder, LAMBDA d : d \in RootEntries)

DiscoverProjects ==
    IF ~store.rootListable THEN <<>>
    ELSE CollectProjects(RootReaddir)

\* -------------------------------------------------------------- getSession
GetSession(projectName, sessionId) ==
    ParseSession(projectName, sessionId \o JSONL_EXT)

\* ------------------------------------------------------------ HTTP surface
\* src/src/bin/viewer.ts and the request handlers of ViewerService.
\* A URL path is the sequence of its segments; a segment of a route is a
\* literal or a parameter.
Lit(name) == <<"lit", name>>
Param(name) == <<"param", name>>

\* the routes main() registers, in order
Routes ==
    << [path |-> <<>>, handler |-> "handleViewerPage"],
       [path |-> <<Lit("api"), Lit("events")>>, handler |-> "handleSSE"],
       [path |-> <<Lit("api"), Lit("projects")>>, handler |-> "handleGetProjects"],
       [path |-> <<Lit("api"), Lit("sessions"), Param("projectName"),
                   Param("sessionId")>>,
        handler |-> "handleGetSession"] >>

\* the router's match of one route against a path
Matches(route, url) ==
    /\ Len(route.path) = Len(url)
    /\ \A i \in 1..Len(url) :
          route.path[i][1] = "lit" => route.path[i][2] = url[i]

\* the handler of the first route that matches, or "none"
Dispatch(url) ==
    LET hits == { i \in 1..Len(Routes) : Matches(Routes[i], url) }
    IN  IF hits = {} THEN "none"
        ELSE Routes[CHOOSE i \in hits : \A j \in hits : i <= j].handler

\* the call of the reader inside the handler's try: every call of getSession
\* that can throw sits inside the try of parseSession, so it returns
TryGetSession(projectName, sessionId) ==
    [threw |-> FALSE, value |-> GetSession(projectName, sessionId)]

\* handleGetSession: the responses it sends for the reader's outcome r
HandleGetSession_NullIsOk(r) ==
    IF r.threw
    THEN <<[status |-> 500, body |-> [error |-> "message"]]>>
    ELSE <<[status |-> 200, body |-> [session |-> r.value]]>>

HandleGetSession(r) ==
    IF r.threw
    THEN <<[status |-> 500, body |-> [error |-> "message"]]>>
    ELSE IF r.value = <<>>
    THEN <<[status |-> 404, body |-> [error |-> "Session not found"]]>>
    ELSE <<[status |-> 200, body |-> [session |-> r.value]]>>

\* handleGetProjects: discoverProjects catches what it calls
HandleGetProjects ==
    <<[status |-> 200, body |-> [projects |-> DiscoverProjects]]>>

\* the responses to GET url.  A path no route matches gets the router's own
\* 404; the page and the event stream are answered with their bodies (the
\* registration of the stream is the action HandleSSE).
Serve(url) ==
    LET h == Dispatch(url)
    IN  IF h = "handleGetSession"
        THEN HandleGetSession(TryGetSession(url[3], url[4]))
        ELSE IF h = "handleGetProjects" THEN HandleGetProjects
        ELSE IF h = "handleSSE"
        THEN <<[status |-> 200, body |-> "text/event-stream"]>>
        ELSE IF h = "handleViewerPage"
        THEN <<[status |-> 200, body |-> "text/html"]>>
        ELSE <<[status |-> 404, body |-> "Cannot GET"]>>

\* ------------------------------------------------------------ client script
\* the URL paths the script of the page requests
ScriptUrl(call) ==
    IF call.fn = "connectSSE" THEN <<"viewer", "api", "events">>
    ELSE IF call.fn = "loadProjects" THEN <<"viewer", "api", "projects">>
    ELSE <<"viewer", "api", "sessions", call.projectName, call.sessionId>>

\* ------------------------------------------------------------------ stores
Contents == UNION { [1..k -> Chars] : k \in 0..MaxLen }

DirContents == { <<"{", "}", "\n", "x">> }

Mtimes == {1, 2}

\* one session file with any content
ContentStores ==
    { [files |-> (S1_FILE :> a), listable |-> TRUE, root |-> {},
       rootListable |-> TRUE] :
         a \in [content : Contents, readable : BOOLEAN, mtime : {1},
                statable : {TRUE}] }

\* a file of a directory: a regular file, or a dangling link
FileAttrs ==
    [content : DirContents, readable : BOOLEAN, mtime : Mtimes, statable : {TRUE}]
       \cup [content : {<<>>}, readable : {FALSE}, mtime : {1}, statable : {FALSE}]

\* a directory of up to MaxFiles files, which may or may not be listed
DirStores ==
    { [files |-> f, listable |-> l, root |-> {}, rootListable |-> TRUE] :
         f \in UNION { [S -> FileAttrs] :
                         S \in { T \in SUBSET NameUniverse :
                                    Cardinality(T) <= MaxFiles } },
         l \in BOOLEAN }

\* a store root of demo and up to MaxDirs more entries; demo holds no file,
\* a session, a session behind a dangling link, or an agent transcript
RootStores ==
    { [files |-> f, listable |-> l, root |-> r, rootListable |-> rl] :
         f \in { <<>> }
                  \cup { S1_FILE :> a :
                            a \in { b \in FileAttrs : b.readable = b.statable
                                                       /\ b.mtime = 1 } }
                  \cup { AGENT_FILE :> a :
                            a \in { b \in FileAttrs : b.readable /\ b.mtime = 1 } },
         l \in BOOLEAN,
         r \in { R \in SUBSET (Range(RootOrder) \ {DEMO}) :
                    Cardinality(R) <= MaxDirs },
         rl \in BOOLEAN }

ProjectInputs == {DEMO, "nonexistent-project"}

SessionIdInputs ==
    { ReplaceFirst(f, JSONL_EXT) : f \in NameUniverse }
       \cup { SubSeq(f, 1, Len(f) - Len(JSONL_EXT)) :
                 f \in { g \in NameUniverse : EndsWith(g, JSONL_EXT) } }
       \cup { <<"n", "o", "n", "e">> }

\* ------------------------------------------------------------- reader spec
\* The hub is idle; the store is any of the stores above.
ReaderInit ==
    /\ clients = <<>>
    /\ queue = [id \in Ids |-> <<>>]
    /\ nextClientId = FirstClientId
    /\ watcher = "null"
    /\ timers = {}
    /\ listeners = {}
    /\ written = [id \in Ids |-> <<>>]
    /\ ended = {}
    /\ broken = {}
    /\ closed = {}
    /\ now = 0
    /\ last = [op |-> "init"]
    /\ exitStatus = "running"
    /\ store \in ContentStores \cup DirStores \cup RootStores
    /\ resp = NoCall

CallParseJSONL(file) ==
    /\ resp' = [op |-> "parseJSONL", file |-> file,
                value |-> ParseJSONL(Join(DEMO, file))]
    /\ UNCHANGED <<hubVars, store>>

CallDiscoverSubAgents(projectName) ==
    /\ resp' = [op |-> "discoverSubAgents", projectName |-> projectName,
                value |-> DiscoverSubAgents(projectName)]
    /\ UNCHANGED <<hubVars, store>>

CallGetProjectSessions(projectName) ==
    /\ resp' = [op |-> "getProjectSessions", projectName |-> projectName,
                value |-> GetProjectSessions(projectName)]
    /\ UNCHANGED <<hubVars, store>>

CallGetSession(projectName, sessionId) ==
    /\ resp' = [op |-> "getSession", projectName |-> projectName,
                sessionId |-> sessionId,
                value |-> GetSession(projectName, sessionId)]
    /\ UNCHANGED <<hubVars, store>>

\* the identifiers of the requests
RequestSessionIds == { <<"s", "1">>, <<"n", "o", "n", "e">> }

\* the paths a caller of the REST interface requests
RequestUrls ==
    { <<>>, <<"api", "events">>, <<"api", "projects">>, <<"api", "sessions">> }
       \cup { <<"api", "sessions", p, i>> :
                 p \in ProjectInputs, i \in RequestSessionIds }

\* the calls of the page's script
ScriptCalls ==
    { [fn |-> "connectSSE"], [fn |-> "loadProjects"] }
       \cup { [fn |-> "loadSession", projectName |-> p, sessionId |-> i] :
                 p \in ProjectInputs, i \in RequestSessionIds }

\* GET url
HttpGet(url) ==
    /\ resp' = [op |-> "GET", url |-> url, handler |-> Dispatch(url),
                responses |-> Serve(url)]
    /\ UNCHANGED <<hubVars, store>>

\* a call of the page's script, which requests its URL
PageScript(call) ==
    /\ resp' = [op |-> "page", call |-> call, url |-> ScriptUrl(call),
                handler |-> Dispatch(ScriptUrl(call)),
                responses |-> Serve(ScriptUrl(call))]
    /\ UNCHANGED <<hubVars, store>>

CallDiscoverProjects ==
    /\ resp' = [op |-> "discoverProjects", value |-> DiscoverProjects]
    /\ UNCHANGED <<hubVars, store>>

\* The reader keeps no state between calls: a behaviour is one call, or one
\* request, on one store.
ReaderIdle == resp = NoCall

ReaderNext ==
    \/ \E file \in NameUniverse : ReaderIdle /\ CallParseJSONL(file)
    \/ \E projectName \in ProjectInputs :
           ReaderIdle /\ CallDiscoverSubAgents(projectName)
    \/ \E projectName \in ProjectInputs :
           ReaderIdle /\ CallGetProjectSessions(projectName)
    \/ \E projectName \in ProjectInputs, sessionId \in SessionIdInputs :
           ReaderIdle /\ CallGetSession(projectName, sessionId)
    \/ ReaderIdle /\ CallDiscoverProjects
    \/ \E url \in RequestUrls : ReaderIdle /\ HttpGet(url)
    \/ \E call \in ScriptCalls : ReaderIdle /\ PageScript(call)

ReaderSpec == ReaderInit /\ [][ReaderNext]_vars

\* ============================================================ properties
\* Helpers of the properties below.  They are stated without the operators
\* of the model, so that they say what is expected, not what is computed.

\* ids that were handed out: the first write either left a frame or threw
Assigned == { id \in Ids : written[id] # <<>> \/ id \in broken }

\* id was registered and is no longer in the registry
Removed(id) == id \in Assigned /\ id \notin ClientSet

TypeCount(w, type) == Cardinality({ i \in 1..Len(w) : w[i][2].type = type })

\* filename is a string of the form <prefix>.jsonl
IsJsonlName(f) ==
    /\ f # NULL
    /\ \E k \in 0..Len(f) : f = SubSeq(f, 1, k) \o JSONL_EXT

\* this step is the watcher callback running on a transcript file
BroadcastStep ==
    /\ now' = now + 1
    /\ last'.op = "fs"
    /\ IsJsonlName(last'.filename)

\* the file_change event that step broadcasts
BroadcastEvent ==
    [type |-> "file_change",
     data |-> [eventType |-> last'.eventType, filename |-> last'.filename,
               timestamp |-> now']]

\* C1: isolation under broadcast.  In a broadcast over the registered
\* connections, every connection whose write does not fail gets the event
\* appended to its stream and stays registered, and exactly the connections
\* whose write fails leave the registry.
C1_IsolationUnderBroadcast ==
    [][BroadcastStep =>
         /\ ClientSet' = ClientSet \ broken
         /\ \A id \in ClientSet \ broken :
                written'[id] = Append(written[id], <<"data: ", BroadcastEvent, "\n\n">>)
         /\ \A id \in Ids \ (ClientSet \ broken) : written'[id] = written[id]
      ]_vars

\* C1 witness: the first timed callback was a broadcast in which one
\* connection failed and was removed while another one got the event.
C1_Witness ==
    /\ Running
    /\ now = 1
    /\ last.op = "fs"
    /\ IsJsonlName(last.filename)
    /\ \E a, b \in Ids :
          /\ a # b
          /\ Removed(a) /\ a \notin closed
          /\ b \in ClientSet
          /\ Len(written[b]) = 2
          /\ written[b][2][2].type = "file_change"

\* C2: heartbeat suppression.  Once a connection is out of the registry, no
\* step adds a heartbeat to its stream, and a tick of its timer does not so
\* much as attempt a write (it cannot throw).
C2_HeartbeatSuppression ==
    [][\A id \in Ids :
          Removed(id) =>
             /\ TypeCount(written'[id], "heartbeat") = TypeCount(written[id], "heartbeat")
             /\ (now' = now + 1 /\ last'.op = "tick" /\ last'.id = id
                    => exitStatus' = exitStatus /\ written' = written)
      ]_vars

\* C2 witness: a connection that got a heartbeat at one tick was removed
\* with its timer still live, and the next tick wrote nothing.
C2_Witness ==
    /\ Running
    /\ last.op = "tick"
    /\ Removed(last.id)
    /\ TypeCount(written[last.id], "heartbeat") = 1
    /\ now = 3

\* C3: per-connection FIFO.  A step changes a stream only by appending one
\* frame at its end, and the timestamps of the timed events of a stream
\* strictly increase along the stream.
C3_PerConnectionFIFO ==
    /\ [][\A id \in Ids :
             written'[id] # written[id] =>
                /\ Len(written'[id]) = Len(written[id]) + 1
                /\ SubSeq(written'[id], 1, Len(written[id])) = written[id]
         ]_vars
    /\ [](\A id \in Ids : \A i, j \in 1..Len(written[id]) :
             /\ i < j
             /\ written[id][i][2].type # "connected"
             /\ written[id][j][2].type # "connected"
             => written[id][i][2].data.timestamp < written[id][j][2].data.timestamp)

\* C3 witness: a stream that carries connected, a heartbeat and a
\* file_change event.
C3_Witness ==
    \E id \in Ids :
       /\ Len(written[id]) >= 3
       /\ TypeCount(written[id], "heartbeat") >= 1
       /\ TypeCount(written[id], "file_change") >= 1

\* C4: fresh, strictly increasing ids.  Every id handed out or registered is
\* below the next-id counter, the registry holds no id twice, the counter
\* never decreases, and a registration uses an id that was never handed out
\* and is greater than all that were.
C4_FreshIncreasingIds ==
    /\ [](/\ \A id \in ClientSet \cup Assigned : IdNum(id) < nextClientId
          /\ \A i, j \in 1..Len(clients) : i # j => clients[i] # clients[j])
    /\ [][/\ nextClientId' >= nextClientId
          /\ Assigned \subseteq Assigned'
          /\ \A id \in Assigned' \ Assigned :
                /\ \A a \in Assigned : IdNum(a) < IdNum(id)
                /\ IdNum(id) = nextClientId
                /\ nextClientId' > IdNum(id)
         ]_vars

\* C4 witness: the second connection registered after the first one was
\* removed, and got a new id.
C4_Witness ==
    /\ nextClientId = 3
    /\ Removed(<<"client-", 1>>)
    /\ <<"client-", 2>> \in ClientSet

\* C5: connected comes first, once.  The first frame of every stream is the
\* connected event carrying the id the connection is registered under, no
\* stream carries a second connected event, and a registered connection
\* whose stream works has received it.
C5_ConnectedFirstOnce ==
    \A id \in Ids :
       /\ written[id] # <<>> =>
             /\ written[id][1][2].type = "connected"
             /\ written[id][1][2].data.clientId = id
             /\ TypeCount(written[id], "connected") = 1
       /\ (id \in ClientSet /\ id \notin broken) => written[id] # <<>>

\* C5 witness: a registered connection whose stream carries further events
\* after connected.
C5_Witness ==
    \E id \in ClientSet :
       /\ Len(written[id]) = 3
       /\ written[id][2][2].type = "file_change"
       /\ written[id][3][2].type = "heartbeat"

\* C6: close unregisters.  A connection whose request emitted 'close' is not
\* in the registry and has no live heartbeat timer.
C6_CloseUnregisters ==
    \A id \in closed : id \notin ClientSet /\ id \notin timers

\* C7: a live heartbeat timer exists only for ids in the registry, and a
\* connection removed by a failed broadcast has its stream ended.
C7_TimersOnlyForRegistered ==
    Running => timers \subseteq ClientSet

\* C8: shutdown.  The step that exits with status 0 leaves the watcher not
\* running (closed if it had started), has ended every stream that was
\* registered, and leaves the registry empty.
C8_Shutdown ==
    [][exitStatus' = "exit 0" /\ exitStatus # "exit 0" =>
          /\ watcher' # "active"
          /\ (watcher = "active" => watcher' = "closed")
          /\ ClientSet \subseteq ended'
          /\ clients' = <<>>
      ]_vars

\* C8 witness: the process exited with status 0 with two connections
\* ended, the watcher never having started.
C8_Witness ==
    /\ exitStatus = "exit 0"
    /\ watcher = "null"
    /\ Cardinality(ended) = 2

\* C9: exactly one file_change per transcript event.  After the watcher
\* callback ran on a .jsonl filename, every connection that was registered
\* with a working stream holds the event with that kind and filename exactly
\* once, and its number of file_change events grew by exactly one.
C9_ExactlyOneFileChange ==
    [][BroadcastStep =>
         \A id \in ClientSet \ broken :
            /\ Cardinality({ i \in 1..Len(written'[id]) :
                               written'[id][i][2] = BroadcastEvent }) = 1
            /\ TypeCount(written'[id], "file_change")
                  = TypeCount(written[id], "file_change") + 1
      ]_vars

\* C9 witness: a connection observed two transcript events, one
\* file_change each.
C9_Witness ==
    /\ last.op = "fs"
    /\ IsJsonlName(last.filename)
    /\ \E id \in ClientSet :
          /\ TypeCount(written[id], "file_change") = 2
          /\ written[id][2][2].data.eventType # written[id][3][2].data.eventType

\* C10: watcher filter.  The watcher callback broadcasts if and only if the
\* filename is present and ends with .jsonl: then every registered
\* connection gets a frame or leaves the registry; otherwise nothing is
\* written and the hub's state stays as it was.
C10_WatcherFilter ==
    [][now' = now + 1 /\ last'.op = "fs" =>
          IF IsJsonlName(last'.filename)
          THEN \A id \in ClientSet :
                  \/ Len(written'[id]) = Len(written[id]) + 1
                  \/ id \notin ClientSet'
          ELSE UNCHANGED <<clients, queue, written, nextClientId, watcher,
                           timers, listeners, ended>>
      ]_vars

\* C10 witness: a filename that only contains .jsonl was reported while a
\* connection was registered, and the connection got nothing.
C10_Witness ==
    /\ now = 1
    /\ last.op = "fs"
    /\ last.filename = JSONL_EXT \o <<".", "b", "a", "k">>
    /\ \E id \in ClientSet : id \notin broken /\ Len(written[id]) = 1

\* C11: at most once, no replay.  No stream carries the same file_change
\* event twice, and a step writes a file_change event only to a connection
\* that was registered when the event was produced: the frame carries the
\* time of this very step, never that of an earlier broadcast.
C11_AtMostOnceNoReplay ==
    /\ [](\A id \in Ids : \A i, j \in 1..Len(written[id]) :
             (i < j /\ written[id][i][2].type = "file_change")
                => written[id][i][2] # written[id][j][2])
    /\ [][\A id \in Ids :
             \A i \in (Len(written[id]) + 1)..Len(written'[id]) :
                written'[id][i][2].type = "file_change" =>
                   /\ id \in ClientSet
                   /\ now' = now + 1
                   /\ written'[id][i][2].data.timestamp = now'
         ]_vars

\* C11 witness: a connection saw two broadcasts while another one, which
\* registered after the first broadcast, holds only the second.
C11_Witness ==
    \E a, b \in Ids :
       /\ TypeCount(written[a], "file_change") = 2
       /\ b \in ClientSet
       /\ Len(written[b]) = 2
       /\ written[b][1][2].type = "connected"
       /\ written[b][2] = written[a][Len(written[a])]

\* C12: heartbeat per tick.  Every registered connection whose stream works
\* has a live timer of its own, and a tick of the timer of such a connection
\* appends exactly one heartbeat event, stamped with the time of the tick, to
\* that connection's stream and to no other.
C12_HeartbeatPerTick ==
    /\ [](Running => \A id \in ClientSet \ broken : id \in timers)
    /\ [][\A id \in Ids :
             (now' = now + 1 /\ last'.op = "tick" /\ last'.id = id
                /\ id \in ClientSet /\ id \notin broken)
             => /\ written'[id] = Append(written[id],
                       <<"data: ", [type |-> "heartbeat",
                                    data |-> [timestamp |-> now']], "\n\n">>)
                /\ \A o \in Ids \ {id} : written'[o] = written[o]
         ]_vars

\* C12 witness: a connection that stayed registered got a heartbeat at each
\* of three ticks of its timer.
C12_Witness ==
    /\ Running
    /\ last.op = "tick"
    /\ last.id \in ClientSet
    /\ TypeCount(written[last.id], "heartbeat") = 3

\* C13: a transport error stays local.  The process never ends with an
\* uncaught error, and a connection whose first write failed is not left in
\* the registry.
C13_TransportErrorLocal ==
    /\ exitStatus # "exit 1"
    /\ \A id \in ClientSet : written[id] # <<>>

\* C14: unregistration is idempotent.  A close notification for an id that
\* is not in the registry leaves the registry, the queues, the streams, the
\* id counter and the timers of the other connections as they were, and the
\* process keeps running.
C14_UnregisterIdempotent ==
    [][\A id \in Ids :
          (id \notin ClientSet /\ id \notin closed /\ id \in closed')
          => /\ clients' = clients
             /\ queue' = queue
             /\ written' = written
             /\ nextClientId' = nextClientId
             /\ timers' \ {id} = timers \ {id}
             /\ id \notin timers'
             /\ exitStatus' = exitStatus
      ]_vars

\* C14 witness: the timer of a connection ticked while the connection was
\* already out of the registry (removed by a failed broadcast), its close
\* notification arrived afterwards, and another connection is registered.
C14_Witness ==
    /\ Running
    /\ last.op = "tick"
    /\ last.id \in closed
    /\ Removed(last.id)
    /\ \A i \in 1..Len(written[last.id]) :
          written[last.id][i][2].type = "heartbeat"
             => written[last.id][i][2].data.timestamp # now
    /\ ClientSet # {}

\* C15: degraded watcher.  When the watch could not be set up, no
\* file_change event is ever written and no watcher callback ever runs,
\* while registration and heartbeats go on: a registered connection whose
\* stream works has its connected event and its timer.
C15_DegradedWatcher ==
    watcher = "null" =>
       /\ last.op # "fs"
       /\ \A id \in Ids : TypeCount(written[id], "file_change") = 0
       /\ Running => \A id \in ClientSet \ broken :
                        /\ written[id] # <<>>
                        /\ id \in timers

\* C15 witness: without a watcher, a connection registered and got connected
\* and a heartbeat.
C15_Witness ==
    /\ watcher = "null"
    /\ \E id \in ClientSet :
          /\ Len(written[id]) >= 2
          /\ written[id][2][2].type = "heartbeat"

\* ------------------------------------------------ properties of the reader
\* the lines of a content that hold a character other than a blank
NonBlankLines(content) ==
    SelectSeq(Split(content), LAMBDA l : \E i \in 1..Len(l) : l[i] # " ")

\* the positions of the first such character of each line
FirstInk(content) ==
    { i \in 1..Len(content) :
         /\ content[i] \notin {" ", "\n"}
         /\ \A j \in 1..(i - 1) :
               (\A k \in j..(i - 1) : content[k] # "\n") => content[j] = " " }

\* the file a parseJSONL call read could be read
ParsedReadable ==
    /\ resp.op = "parseJSONL"
    /\ resp.file \in DOMAIN store.files
    /\ store.files[resp.file].readable

IsParseError(record) == "type" \in DOMAIN record /\ record.type = "parse_error"

\* C16: total parsing.  parseJSONL always returns a sequence; for a file it
\* could read, the sequence has one record per non-blank line, in file
\* order: the decoded value of the line, or the sentinel of that line.
C16_TotalParsing ==
    resp.op = "parseJSONL" =>
       IF ParsedReadable
       THEN LET content == store.files[resp.file].content
                lines   == NonBlankLines(content)
            IN  /\ Len(resp.value) = Cardinality(FirstInk(content))
                /\ Len(resp.value) = Len(lines)
                /\ \A k \in 1..Len(lines) :
                      IF JsonParse(lines[k]).ok
                      THEN resp.value[k] = JsonParse(lines[k]).value
                      ELSE /\ IsParseError(resp.value[k])
                           /\ resp.value[k].raw = lines[k]
       ELSE resp.value = <<>>

\* C16 witness: a file with a valid line, a blank line and an undecodable
\* line gave two records.
C16_Witness ==
    /\ ParsedReadable
    /\ Len(Split(store.files[resp.file].content)) = 3
    /\ Len(resp.value) = 2
    /\ ~IsParseError(resp.value[1])
    /\ IsParseError(resp.value[2])

\* C17: sentinel stability.  Every non-blank line that is not valid JSON
\* yields, at its place, the record {type: parse_error, raw: the line as it
\* stands in the file}, and there are as many sentinels as such lines.
C17_SentinelStability ==
    ParsedReadable =>
       LET lines == NonBlankLines(store.files[resp.file].content)
       IN  /\ \A k \in 1..Len(lines) :
                 ~JsonParse(lines[k]).ok =>
                    /\ k <= Len(resp.value)
                    /\ resp.value[k] = [type |-> "parse_error", raw |-> lines[k]]
           /\ Cardinality({ k \in 1..Len(resp.value) : IsParseError(resp.value[k]) })
                 = Cardinality({ k \in 1..Len(lines) : ~JsonParse(lines[k]).ok })

\* C17 witness: an undecodable line with blanks around its text was kept
\* with its blanks.
C17_Witness ==
    /\ ParsedReadable
    /\ \E k \in 1..Len(resp.value) :
          /\ IsParseError(resp.value[k])
          /\ resp.value[k].raw[1] = " "
          /\ resp.value[k].raw[Len(resp.value[k].raw)] = " "

\* C18: getSession returns null whenever the session file does not exist or
\* cannot be read.
C18_NotFoundOnReadError ==
    resp.op = "getSession" =>
       LET file == resp.sessionId \o JSONL_EXT
       IN  (\/ resp.projectName # "demo"
            \/ file \notin DOMAIN store.files
            \/ ~store.files[file].readable)
           => resp.value = <<>>

\* C19: identity round trip.  For every session a listing returns, its
\* session id with the extension appended is its file name, and getSession
\* with the session's project name and session id returns that session.
C19_IdentityRoundTrip ==
    resp.op = "getProjectSessions" =>
       \A k \in 1..Len(resp.value) :
          /\ resp.value[k].sessionId \o JSONL_EXT = resp.value[k].sessionFile
          /\ GetSession(resp.value[k].projectName, resp.value[k].sessionId)
                = <<resp.value[k]>>

\* file name of the form agent-<id>.jsonl with a non-empty id
IsAgentName(f) ==
    \E k \in 1..(Len(f) - 12) :
       f = <<"a", "g", "e", "n", "t", "-">> \o SubSeq(f, 7, 6 + k) \o JSONL_EXT

\* C20: classification is a partition.  Of the .jsonl files of a directory
\* that can be listed (the files that exist behind their names), the listing
\* returns a session for exactly those that are not of the form
\* agent-<id>.jsonl, and the sub-agent discovery returns an entry for exactly
\* those that are.
C20_ClassificationPartition ==
    LET jsonl == { f \in DOMAIN store.files :
                      /\ IsJsonlName(f)
                      /\ store.listable
                      /\ store.files[f].statable }
    IN  /\ (resp.op = "getProjectSessions" /\ resp.projectName = "demo") =>
              \A f \in jsonl :
                 ~IsAgentName(f)
                    <=> \E k \in 1..Len(resp.value) : resp.value[k].sessionFile = f
        /\ (resp.op = "discoverSubAgents" /\ resp.projectName = "demo") =>
              \A f \in jsonl :
                 IsAgentName(f)
                    <=> \E k \in 1..Len(resp.value) : resp.value[k].path.file = f

\* the sessions the call made last returned for the project directory
ReturnedSessions ==
    IF resp.op \in {"getProjectSessions", "getSession"} /\ resp.projectName = "demo"
    THEN { resp.value[k] : k \in 1..Len(resp.value) }
    ELSE {}

\* the files of the directory named agent-<id>.jsonl
AgentFiles == { f \in DOMAIN store.files : IsAgentName(f) }

\* subAgents has exactly one entry per agent file, with the id of its name
OneEntryPerAgentFile(subAgents) ==
    /\ Len(subAgents) = Cardinality(AgentFiles)
    /\ \A f \in AgentFiles :
          \E k \in 1..Len(subAgents) :
             /\ subAgents[k].path.file = f
             /\ <<"a", "g", "e", "n", "t", "-">> \o subAgents[k].id \o JSONL_EXT = f

IsListedName(f) ==
    /\ IsJsonlName(f)
    /\ \A k \in 1..Len(f) :
          \A n \in {6, 7} :
             (k + n - 1 <= Len(f) /\ (n = 6 => k = 1))
                => SubSeq(f, k, k + n - 1)
                      # SubSeq(<<"-", "a", "g", "e", "n", "t", "-">>, 8 - n, 7)

\* the session files of the directory that can be stat'ed
StatableSessionFiles ==
    { f \in DOMAIN store.files : IsListedName(f) /\ store.files[f].statable }

\* C22: listing order.  The sessions a listing returns are sorted by
\* modification time, newest first, and there is exactly one session, with
\* the file's modification time, per session file of the directory that can
\* be stat'ed; a directory that cannot be listed gives the empty listing.
C22_ListingOrder ==
    (resp.op = "getProjectSessions" /\ resp.projectName = "demo") =>
       IF store.listable
       THEN /\ \A k \in 1..(Len(resp.value) - 1) :
                  resp.value[k].lastModified >= resp.value[k + 1].lastModified
            /\ Len(resp.value) = Cardinality(StatableSessionFiles)
            /\ \A f \in StatableSessionFiles :
                  \E k \in 1..Len(resp.value) :
                     /\ resp.value[k].sessionFile = f
                     /\ resp.value[k].lastModified = store.files[f].mtime
       ELSE resp.value = <<>>

\* C22 witness: of two session files the one the directory lists first is
\* the older one, and the listing returned the newer one first.
C22_Witness ==
    /\ resp.op = "getProjectSessions"
    /\ Len(resp.value) = 2
    /\ resp.value[1].sessionFile = <<"s", "1">> \o JSONL_EXT
    /\ resp.value[1].lastModified > resp.value[2].lastModified

\* the entries of the root that are project directories with a session the
\* listing returns
ProjectsWithSessions ==
    { d \in {"demo"} \cup store.root :
         \/ d = "archive"
         \/ d = "demo" /\ store.listable /\ StatableSessionFiles # {} }

\* C23: listProjects.  The projects returned are exactly the directories of
\* the store root with at least one session, each once and with its
\* sessions, whatever other entries the root holds (a directory that cannot
\* be listed, a dangling link, a regular file, an empty directory); a root
\* that cannot be listed gives the empty result.
C23_ListProjects ==
    resp.op = "discoverProjects" =>
       IF store.rootListable
       THEN /\ { resp.value[k].name : k \in 1..Len(resp.value) }
                  = ProjectsWithSessions
            /\ Len(resp.value) = Cardinality(ProjectsWithSessions)
            /\ \A k \in 1..Len(resp.value) :
                  /\ resp.value[k].name = "demo" =>
                        { resp.value[k].sessions[i].sessionFile :
                             i \in 1..Len(resp.value[k].sessions) }
                           = StatableSessionFiles
                  /\ resp.value[k].name = "archive" =>
                        /\ Len(resp.value[k].sessions) = 1
                        /\ resp.value[k].sessions[1].sessionFile
                              = <<"s", "1">> \o JSONL_EXT
                        /\ Len(resp.value[k].sessions[1].messages) = 1
       ELSE resp.value = <<>>

\* C23 witness: the root holds a dangling link between two projects with a
\* session, and both projects were returned.
C23_Witness ==
    /\ resp.op = "discoverProjects"
    /\ "dangling" \in store.root
    /\ Len(resp.value) = 2
    /\ resp.value[1].name = "archive"
    /\ resp.value[2].name = "demo"

\* the request made last was GET /api/sessions/<projectName>/<sessionId>
SessionRequest ==
    /\ resp.op = "GET"
    /\ Len(resp.url) = 4
    /\ resp.url[1] = "api"
    /\ resp.url[2] = "sessions"

\* C24: session route status mapping.  Every GET
\* /api/sessions/:projectName/:sessionId gets exactly one response: 404 with
\* "Session not found" exactly when the reader returns not-found, and 200
\* with the session the reader returns otherwise; the reader does not throw,
\* so no 500 is sent and nothing escapes the handler.
C24_SessionRouteStatus ==
    SessionRequest =>
       LET session == GetSession(resp.url[3], resp.url[4])
       IN  /\ resp.handler = "handleGetSession"
           /\ Len(resp.responses) = 1
           /\ resp.responses[1].status \in {200, 404}
           /\ resp.responses[1].status = 404 <=> session = <<>>
           /\ resp.responses[1].status = 404 =>
                 resp.responses[1].body = [error |-> "Session not found"]
           /\ resp.responses[1].status = 200 =>
                 resp.responses[1].body = [session |-> session]

\* C24 witness: GET /api/sessions/demo/s1 was answered 200 with a session of
\* two messages.
C24_Witness ==
    /\ SessionRequest
    /\ resp.url[3] = "demo"
    /\ resp.responses[1].status = 200
    /\ Len(resp.responses[1].body.session[1].messages) = 2

\* C28: the client consumes the endpoints the server serves.  Every request
\* of the page's script is matched by a registered route, that of the
\* handler the call is meant for: connectSSE opens the event stream,
\* loadProjects gets the project list, loadSession gets a session.
C28_ClientConsumesServedEndpoints ==
    resp.op = "page" =>
       /\ resp.handler # "none"
       /\ resp.call.fn = "connectSSE" => resp.handler = "handleSSE"
       /\ resp.call.fn = "loadProjects" => resp.handler = "handleGetProjects"
       /\ resp.call.fn = "loadSession" => resp.handler = "handleGetSession"

\* C30: getSession returns a session only for a session file.  When
\* getSession(projectName, sessionId) returns a session, <sessionId>.jsonl is
\* a name the listing classifies as a session file, so the transcript of a
\* sub-agent is never returned as a session.
C30_SessionOnlyForSessionFile ==
    (resp.op = "getSession" /\ resp.value # <<>>) =>
       /\ IsListedName(resp.sessionId \o JSONL_EXT)
       /\ ~IsAgentName(resp.value[1].sessionFile)

\* ---------------------------------------------- further properties of the hub
\* this step is a tick of the heartbeat timer of id
TickOf(id) == now' = now + 1 /\ last'.op = "tick" /\ last'.id = id

\* this step registers id
RegisterOf(id) == nextClientId' # nextClientId /\ id = <<"client-", nextClientId>>

\* C25: the queue is drained on every flush.  Between two handlers the
\* outbound queue of every connection is empty (so it never holds more than
\* the one event of the broadcast under way), and a broadcast leaves the
\* queue of every connection it wrote to empty, with the event written.
C25_QueueDrained ==
    /\ [](\A id \in Ids : Len(queue[id]) = 0)
    /\ [][BroadcastStep =>
             \A id \in ClientSet \ broken :
                /\ queue'[id] = <<>>
                /\ Len(written'[id]) = Len(written[id]) + 1
         ]_vars

\* C25 witness: a connection took two broadcasts and a heartbeat, and its
\* queue is empty.
C25_Witness ==
    /\ last.op = "fs"
    /\ \E id \in ClientSet :
          /\ TypeCount(written[id], "file_change") = 2
          /\ TypeCount(written[id], "heartbeat") = 1
          /\ queue[id] = <<>>

\* C26: connections are independent.  A close of one connection, or a tick
\* of its heartbeat timer, leaves every other registered connection as it
\* was: registered, with its queue, its stream and its timer, in a process
\* that keeps running.  A broadcast in which no write fails leaves the
\* registry and the id counter unchanged.
C26_ConnectionsIndependent ==
    [][/\ \A id \in Ids :
             ((id \notin closed /\ id \in closed') \/ TickOf(id)) =>
                \A o \in ClientSet \ {id} :
                   /\ o \in ClientSet'
                   /\ queue'[o] = queue[o]
                   /\ written'[o] = written[o]
                   /\ (o \in timers' <=> o \in timers)
                   /\ (o \in ended' <=> o \in ended)
                   /\ exitStatus' = "running"
       /\ (BroadcastStep /\ ClientSet \cap broken = {}) =>
             clients' = clients /\ nextClientId' = nextClientId
      ]_vars

\* the frames the specified hub writes to id when it enqueues event on the
\* connection's queue and flushes the queue
EnqueueAndFlush(id, event) ==
    IF id \in broken' THEN <<>>
    ELSE [i \in 1..(Len(queue[id]) + 1) |->
            <<"data: ", (queue[id] \o <<event>>)[i], "\n\n">>]

\* C27: direct writes refine the queue.  From every reachable state, each
\* step of the implementation writes to every connection what the specified
\* hub writes, which enqueues every event (connected at registration,
\* heartbeat at a tick of a registered connection, file_change at a
\* broadcast) and flushes the queue; no other step writes.  Both start from
\* the same state, so the written sequences agree for every interleaving.
C27_DirectWriteRefinesQueue ==
    [][\A id \in Ids :
          IF RegisterOf(id)
          THEN written'[id] = written[id] \o
                  EnqueueAndFlush(id, [type |-> "connected",
                                       data |-> [clientId |-> id]])
          ELSE IF TickOf(id) /\ id \in ClientSet
          THEN written'[id] = written[id] \o
                  EnqueueAndFlush(id, [type |-> "heartbeat",
                                       data |-> [timestamp |-> now']])
          ELSE IF BroadcastStep /\ id \in ClientSet
          THEN written'[id] = written[id] \o EnqueueAndFlush(id, BroadcastEvent)
          ELSE written'[id] = written[id]
      ]_vars

\* C27 witness: a tick wrote a heartbeat to a connection right after a
\* broadcast had gone through the connection's queue.
C27_Witness ==
    /\ last.op = "tick"
    /\ last.id \in ClientSet
    /\ now = 2
    /\ Len(written[last.id]) = 3
    /\ written[last.id][2][2].type = "file_change"
    /\ written[last.id][3][2].type = "heartbeat"
    /\ queue[last.id] = <<>>

\* C29: no write after removal.  A step writes to a stream only if its
\* connection is in the registry when the step ends and the stream was not
\* ended; the tick of the timer of a connection that is out of the registry
\* writes nothing and attempts no write; after destroy nothing is written.
C29_NoWriteAfterRemoval ==
    [][\A id \in Ids :
          /\ written'[id] # written[id] =>
                /\ id \in ClientSet'
                /\ id \notin ended
                /\ exitStatus = "running"
          /\ (TickOf(id) /\ id \notin ClientSet) =>
                /\ written' = written
                /\ exitStatus' = exitStatus
      ]_vars

\* C29 witness: a connection left the registry in a failed broadcast, its
\* stream holding connected alone; its timer, still live, ticked afterwards.
C29_Witness ==
    /\ Running
    /\ last.op = "tick"
    /\ Removed(last.id)
    /\ last.id \in timers
    /\ last.id \notin closed
    /\ Len(written[last.id]) = 1

====
